---------------------------- MODULE Spec2Model ----------------------------
(***************************************************************************)
(* AutoMark front end (frontend-app/src): the App wizard, the Sidebar, and *)
(* the Upload, Configure, Processing, Viewer and Export pages, composed    *)
(* with the annotation server they talk to.                                *)
(*                                                                         *)
(* Strings the code trims are sequences of one-character strings, so that  *)
(* trim() is computed.  Thresholds are integer hundredths (0.35 -> 35).    *)
(* A session object is represented by its session id (0 is null); an       *)
(* annotation set by the id of the session it was fetched for (0 is null). *)
(***************************************************************************)
EXTENDS Integers, Sequences, FiniteSets, TLC

(* ------------------------------ bounds -------------------------------- *)
\* sessions the server creates (successful uploads)
MaxSessions == 2
\* prompts in the configure page's list
MaxObjects == 2
\* ProcessingPage instances that are mounted or, unmounted, still have a
\* request, timer or timeout pending, at once
MaxMounts == 1
\* Retry clicks per ProcessingPage instance
MaxRetries == 1
\* status responses in flight and completion timeouts pending of one
\* ProcessingPage instance at once
MaxInFlight == 2
\* images of a session
NumImages == 1
\* upload requests of unmounted UploadPage instances pending at once
MaxOldUploads == 1
\* export requests of unmounted ExportPage instances pending at once
MaxOldExports == 1
\* detections of the image shown in the viewer, and image loads pending
MaxDetections == 2
MaxImageLoads == 2
\* the size in pixels of the image shown in the viewer
ImgWidth == 4
ImgHeight == 4

(* ------------------------- program constants -------------------------- *)
DefaultBoxThreshold == 35
DefaultTextThreshold == 25
DefaultMinBoxSize == 10
SliderMin == 10
SliderMax == 90
SliderStep == 5

(* ------------------------------ strings ------------------------------- *)
EmptyStr == <<>>
Blank == <<" ">>
Ball == <<"a">>
PaddedCar == <<" ", "b", " ">>
GenericObject == <<"o", "b", "j", "e", "c", "t">>

IsSpace(ch) == ch = " "

RECURSIVE TrimStart(_)
TrimStart(s) ==
    IF Len(s) > 0 /\ IsSpace(Head(s)) THEN TrimStart(Tail(s)) ELSE s

RECURSIVE TrimEnd(_)
TrimEnd(s) ==
    IF Len(s) > 0 /\ IsSpace(s[Len(s)]) THEN TrimEnd(SubSeq(s, 1, Len(s) - 1)) ELSE s

\* String.prototype.trim
trim(s) == TrimEnd(TrimStart(s))

\* JavaScript truthiness of a string
Truthy(s) == Len(s) > 0


(* ------------------------------- pages -------------------------------- *)
\* navItems: page ids in workflow order; the step of a page is its index
navItems == <<"upload", "configure", "processing", "viewer", "export">>

StepOf(page) == CHOOSE k \in 1..Len(navItems) : navItems[k] = page

\* formatOptions of ConfigurePage / formats of ExportPage: the radio values
formatOptions == {"coco", "yolo", "voc", "roboflow"}

\* range inputs with min="0"
SliderValuesFromZero == {v \in 0..SliderMax : v % SliderStep = 0}

\* values the two range inputs can produce (min 0.1, max 0.9, step 0.05)
SliderValues == {v \in SliderMin..SliderMax : (v - SliderMin) % SliderStep = 0}

VARIABLES
    currentPage,   \* App: 'upload' | 'configure' | 'processing' | 'viewer' | 'export'
    session,       \* App: 0 (null) or the session id of the upload response
    config,        \* App: the configuration record
    annotations,   \* App: 0 (null) or the session id the data was fetched for
    up,            \* UploadPage state of the mounted instance
    xhr,           \* files of the mounted UploadPage's upload requests still pending
    xhrOld,        \* the same, of unmounted UploadPage instances
    upDone,        \* upload results whose 500 ms onComplete timeout is pending
    localConfig,   \* ConfigurePage state
    pp,            \* ProcessingPage instances, mounted or not, by instance number
    ppCur,         \* the mounted ProcessingPage instance, 0 when none
    ex,            \* ExportPage state
    exReq,         \* the export request the mounted ExportPage waits for, if any
    exOld,         \* the export requests of unmounted ExportPage instances
                   \* still pending
    viewer,        \* ViewerPage state: the detections shown and the canvas
    srv,           \* server: per session, the run's status and processed count
    created,       \* server: sessions created so far
    sent,          \* the request to /api/annotate, /api/status, /api/annotations
                   \* or /api/export issued by the last step (kind "none" if none)
    called         \* onComplete, onSubmit, alert() or the download link's
                   \* click() as called by the last step (kind "none" if none)

appVars == <<currentPage, session, config, annotations>>
upVars == <<up, xhr, xhrOld, upDone>>
ppVars == <<pp, ppCur>>
exVars == <<ex, exReq, exOld>>
srvVars == <<srv, created>>
vars == <<currentPage, session, config, annotations, up, xhr, xhrOld, upDone,
          localConfig, pp, ppCur, ex, exReq, exOld, viewer, srv, created, sent,
          called>>

NoRequest == [kind |-> "none"]
NoCall == [kind |-> "none"]

(* ------------------------------- App ---------------------------------- *)
\* the initial value with the format id in capitals
InitialConfigUpperCase ==
    [objects |-> <<>>, boxThreshold |-> DefaultBoxThreshold,
     textThreshold |-> DefaultTextThreshold, useSam |-> FALSE, exportFormat |-> "COCO"]

\* useState initial value of config
InitialConfig ==
    [objects |-> <<>>, boxThreshold |-> DefaultBoxThreshold,
     textThreshold |-> DefaultTextThreshold, useSam |-> FALSE, exportFormat |-> "coco"]

(* ---------------------------- UploadPage ------------------------------ *)
NoFile == <<>>
NoError == "null"
ZipFile == <<"a", ".", "z", "i", "p">>
PngFile == <<"b", ".", "p", "n", "g">>
FileNames == {ZipFile, PngFile}
DotZip == <<".", "z", "i", "p">>

\* String.prototype.endsWith
endsWith(str, suffix) ==
    /\ Len(str) >= Len(suffix)
    /\ SubSeq(str, Len(str) - Len(suffix) + 1, Len(str)) = suffix

UploadInitial ==
    [file |-> NoFile, uploading |-> FALSE, uploadProgress |-> 0, error |-> NoError,
     previewImages |-> FALSE]

(* --------------------------- ConfigurePage ---------------------------- *)
\* useState initial value of localConfig, from the config prop
InitialLocalConfig(c) ==
    [objects |-> IF Len(c.objects) > 0 THEN c.objects ELSE <<EmptyStr>>,
     boxThreshold |-> c.boxThreshold, textThreshold |-> c.textThreshold,
     useSam |-> c.useSam, exportFormat |-> c.exportFormat,
     minBoxSize |-> DefaultMinBoxSize, removeOverlaps |-> TRUE, skipDetection |-> FALSE]

\* the value the variable holds while no ConfigurePage is mounted
LocalConfigUnmounted == InitialLocalConfig(InitialConfig)

(* ----------------------------- ExportPage ----------------------------- *)
ExportInitial(c) ==
    [selectedFormat |-> c.exportFormat, exporting |-> FALSE, exportComplete |-> FALSE]

ExportUnmounted == ExportInitial(InitialConfig)


(* ----------------------------- ViewerPage ----------------------------- *)
\* a ring of a segmentation: the flat list x1, y1, x2, y2, ... of n numbers
Ring(n) == [j \in 1..n |-> j]

RingLengths == {0, 4, 6, 7}

\* segmentations[i]: undefined when the list has no such entry
NoSegmentation == [defined |-> FALSE, rings |-> <<>>]

Segmentations ==
    {NoSegmentation, [defined |-> TRUE, rings |-> <<>>],
     [defined |-> TRUE, rings |-> <<Ring(4), Ring(6)>>]}
    \cup {[defined |-> TRUE, rings |-> <<Ring(n)>>] : n \in RingLengths}

Labels == {"ball", "car"}

\* JavaScript values that are not numbers: a missing property, and the
\* result of arithmetic on one
Undefined == -1
NaN == -2

\* a box in corner form (x1, y1, x2, y2, in pixels) or in normalized form
\* (x, y, width, height, as fractions of the image)
CornerBox(x1, y1, x2, y2) ==
    [x1 |-> x1, y1 |-> y1, x2 |-> x2, y2 |-> y2,
     x |-> Undefined, y |-> Undefined, width |-> Undefined, height |-> Undefined]

NormalizedBox(x, y, width, height) ==
    [x1 |-> Undefined, y1 |-> Undefined, x2 |-> Undefined, y2 |-> Undefined,
     x |-> x, y |-> y, width |-> width, height |-> height]

InnerBox == CornerBox(1, 1, 3, 3)

\* boxes inside the image and boxes that touch its left or top edge, and the
\* box that covers the image in normalized form
Boxes ==
    {CornerBox(x1, y1, 3, 3) : x1 \in {0, 1}, y1 \in {0, 1}}
    \cup {NormalizedBox(0, 0, 1, 1)}

\* currentAnnotation: the boxes, labels and segmentations of the image shown
NoDetections == [boxes |-> <<>>, labels |-> <<>>, segmentations |-> <<>>]

\* one detection without a segmentation, for every box
BoxAnnotations ==
    {[boxes |-> <<box>>, labels |-> <<"ball">>, segmentations |-> <<>>] :
        box \in Boxes}

CurrentAnnotations ==
    UNION {{[boxes |-> [j \in 1..n |-> InnerBox], labels |-> l, segmentations |-> g] :
               l \in [1..n -> Labels],
               g \in UNION {[1..m -> Segmentations] : m \in 0..MaxDetections}} :
           n \in 0..MaxDetections}

\* annotations: the image list and, in insertion order, the annotations by
\* image path
AnnotationSet(images, entries) == [images |-> images, annotations |-> entries]

SingleImage(a) == AnnotationSet(<<"img1">>, <<[path |-> "img1", ann |-> a]>>)

\* allAnnotations[path] || { boxes: [], labels: [], scores: [] }
AnnotationOf(set, path) ==
    LET hits == {j \in 1..Len(set.annotations) : set.annotations[j].path = path}
    IN  IF hits = {} THEN NoDetections
        ELSE set.annotations[CHOOSE j \in hits : TRUE].ann

\* images[selectedImage]: undefined past the end of the list
HasCurrentImage(set, selectedImage) == selectedImage \in 1..Len(set.images)

currentAnnotationOf(set, selectedImage) ==
    IF HasCurrentImage(set, selectedImage)
    THEN AnnotationOf(set, set.images[selectedImage])
    ELSE NoDetections

\* Object.values(allAnnotations).flatMap(ann => ann.labels || [])
RECURSIVE FlatLabels(_, _)
FlatLabels(entries, j) ==
    IF j > Len(entries) THEN <<>>
    ELSE entries[j].ann.labels \o FlatLabels(entries, j + 1)

\* [...new Set(list)]: the values in the order they are first seen
RECURSIVE Unique(_, _)
Unique(list, j) ==
    IF j > Len(list) THEN <<>>
    ELSE IF \E m \in 1..(j - 1) : list[m] = list[j]
         THEN Unique(list, j + 1)
         ELSE <<list[j]>> \o Unique(list, j + 1)

classesOf(set) == Unique(FlatLabels(set.annotations, 1), 1)

\* classes.indexOf(label): the position from 0, or -1
indexOf(list, x) ==
    IF \E m \in 1..Len(list) : list[m] = x
    THEN (CHOOSE m \in 1..Len(list) :
             list[m] = x /\ \A n \in 1..(m - 1) : list[n] # x) - 1
    ELSE -1

\* a % n of JavaScript: the sign of the result is the sign of a
Remainder(a, n) == IF a >= 0 THEN a % n ELSE -((-a) % n)

classColors ==
    [default |-> "#6366f1",
     colors |-> <<"#6366f1", "#06b6d4", "#10b981", "#f97316", "#ec4899",
                  "#8b5cf6", "#f59e0b">>]

\* colors[index % (colors.length - 1)] || default
getClassColorShortPalette(classes, label) ==
    LET index == Remainder(indexOf(classes, label), Len(classColors.colors) - 1)
    IN  IF index \in 0..(Len(classColors.colors) - 1)
        THEN classColors.colors[index + 1]
        ELSE classColors.default

\* colors[index % colors.length] || default
getClassColor(classes, label) ==
    LET index == Remainder(indexOf(classes, label), Len(classColors.colors))
    IN  IF index \in 0..(Len(classColors.colors) - 1)
        THEN classColors.colors[index + 1]
        ELSE classColors.default

\* Object.values(allAnnotations).reduce((sum, ann) => sum + 1, 0): the
\* number of annotated images
RECURSIVE totalDetectionsCountsEntries(_, _)
totalDetectionsCountsEntries(entries, j) ==
    IF j > Len(entries) THEN 0
    ELSE 1 + totalDetectionsCountsEntries(entries, j + 1)

\* Object.values(allAnnotations).reduce((sum, ann) =>
\* sum + (ann.boxes?.length || 0), 0), of the viewer and of the export page
RECURSIVE totalDetections(_, _)
totalDetections(entries, j) ==
    IF j > Len(entries) THEN 0
    ELSE Len(entries[j].ann.boxes) + totalDetections(entries, j + 1)

\* the gallery: (allAnnotations[img] || {}).boxes?.length || 0 per image
galleryCounts(set) ==
    [index \in 1..Len(set.images) |->
        Len(AnnotationOf(set, set.images[index]).boxes)]

\* the numbers a render shows: the total, 'Images (n)' and the gallery
Stats(set) ==
    [totalDetections |-> totalDetections(set.annotations, 1),
     imageCount |-> Len(set.images),
     gallery |-> galleryCounts(set)]

\* the state a render of the drawing effect closes over
ViewerClosure(v) ==
    [currentAnnotation |-> v.currentAnnotation, classes |-> classesOf(v.annotations),
     selectedClass |-> v.selectedClass, showLabels |-> v.showLabels]

ViewerUnmounted ==
    [annotations |-> AnnotationSet(<<>>, <<>>), selectedImage |-> 1,
     stats |-> Stats(AnnotationSet(<<>>, <<>>)),
     currentAnnotation |-> NoDetections, selectedClass |-> "all",
     showLabels |-> TRUE, loading |-> <<>>, canvas |-> <<>>]

\* a state change the effect depends on re-runs it: a new Image is loaded,
\* unless there is no current image
Redraw(v) ==
    IF HasCurrentImage(v.annotations, v.selectedImage)
    THEN [v EXCEPT !.loading = Append(@, ViewerClosure(v))]
    ELSE v

\* useState defaults; the effect of the first render starts loading the image
ViewerInitial(set) ==
    Redraw([annotations |-> set, selectedImage |-> 1, stats |-> Stats(set),
            currentAnnotation |-> currentAnnotationOf(set, 1),
            selectedClass |-> "all", showLabels |-> TRUE,
            loading |-> <<>>, canvas |-> <<>>])

(* ------------------------------ server -------------------------------- *)
\* The back end is not part of the front-end sources: its behaviour follows
\* the specification (sections 3, 4.1, 6 and 7).
Sessions == 1..MaxSessions

\* ProgressState of a session before any run
ServerInitial == [status |-> "queued", count |-> 0]

\* start_run: rejected if the session is unknown, a run is processing, or
\* the prompt list is empty
ServerRejects(s, body) ==
    \/ s \notin 1..created
    \/ srv[s].status = "processing"
    \/ Len(body.objects) = 0

\* the store after an accepted start_run
ServerStartRun(s) ==
    [srv EXCEPT ![s] = [status |-> "processing", count |-> 0]]

\* GET /api/status: {status, processed_count, progress(0-100)}
ServerStatus(s) ==
    [status |-> srv[s].status, processed_count |-> srv[s].count,
     progress |-> (srv[s].count * 100) \div NumImages]

(* --------------------------- ProcessingPage --------------------------- *)
Instances == 1..MaxMounts

\* A ProcessingPage instance at mount, before its effect has run.
\* pollingRef is 1 while pollingRef.current is a live interval timer and 0
\* while it is null or a cleared timer; leaked counts the live interval
\* timers pollingRef no longer refers to.  posts are the outcomes of the
\* annotate requests outstanding, polls the status responses in flight,
\* timeouts the pending setTimeout(handleComplete) calls.  fetchedOnce and
\* failedStart record the attempt's history: handleComplete has run, the
\* annotate request came back rejected or failed.  startTime is 0 while
\* the state is null and otherwise the time setStartTime was given, the
\* number of the attempt standing for Date.now(); eta is 0 while it is null
\* and otherwise the start time it was computed from.  postStarts,
\* pollingStart and leakedStarts are the values of startTime that the
\* closures of the outstanding startProcessing calls, of the timer
\* pollingRef refers to and of the other live timers hold.
ProcessingInitial ==
    [alive |-> FALSE, sid |-> 0, status |-> "connecting", progress |-> 0,
     processedCount |-> 0, hasStarted |-> FALSE, attempt |-> 0,
     pollingRef |-> 0, leaked |-> 0, posts |-> <<>>, polls |-> <<>>, timeouts |-> 0,
     fetchedOnce |-> FALSE, failedStart |-> FALSE,
     startTime |-> 0, eta |-> 0, postStarts |-> <<>>, pollingStart |-> 0,
     leakedStarts |-> {}]

\* live interval timers of an instance
Timers(p) == p.pollingRef + p.leaked

\* clearInterval(pollingRef.current)
clearInterval(p) == [p EXCEPT !.pollingRef = 0, !.pollingStart = 0]

\* the JSON body of POST /api/annotate/{session_id}
AnnotateBody(c) ==
    [objects |-> c.objects, box_threshold |-> c.boxThreshold,
     text_threshold |-> c.textThreshold, use_sam |-> (c.useSam \/ FALSE),
     export_format |-> c.exportFormat]

\* the request of instance i's attempt; overlaps: the run last started for
\* the session is still processing when it is sent
AnnotateRequest(i, attempt, s, c) ==
    [kind |-> "annotate", inst |-> i, attempt |-> attempt, sid |-> s,
     body |-> AnnotateBody(c), overlaps |-> srv[s].status = "processing"]

\* what the annotate request can come back with: the server's answer, or a
\* failed fetch that never reached the server
AnnotateOutcomes(s, c) ==
    {"failed"} \cup (IF ServerRejects(s, AnnotateBody(c)) THEN {"rejected"} ELSE {"ok"})

\* startProcessing up to its await: setStartTime(Date.now()),
\* setStatus('processing') and the request of startAnnotation, which comes
\* back with outcome o.  The call runs in the closure of the render that
\* invoked it: the startTime it sees is the state before setStartTime
startProcessing(p, o) ==
    [p EXCEPT !.status = "processing", !.attempt = @ + 1,
              !.startTime = p.attempt + 1,
              !.posts = Append(@, o), !.postStarts = Append(@, p.startTime),
              !.failedStart = FALSE, !.fetchedOnce = FALSE]

\* mount and the effect on [session]
Mount(s, o) ==
    IF s = 0
    THEN [ProcessingInitial EXCEPT !.alive = TRUE]
    ELSE startProcessing([ProcessingInitial EXCEPT !.alive = TRUE, !.sid = s,
                                                   !.hasStarted = TRUE], o)

\* An unmounted instance is kept while it has a request, a timer or a
\* timeout pending; its state, its refs other than pollingRef and what its
\* closures hold of its state are no longer observable.  Without anything pending its slot is free again.
Pending(p) == Timers(p) > 0 \/ p.posts # <<>> \/ p.polls # <<>> \/ p.timeouts > 0

Normalize(p) ==
    IF p.alive THEN p
    ELSE IF ~Pending(p) THEN ProcessingInitial
    ELSE [p EXCEPT !.status = "connecting", !.progress = 0, !.processedCount = 0,
                   !.hasStarted = FALSE, !.attempt = 0, !.failedStart = FALSE,
                   !.startTime = 0, !.eta = 0,
                   !.postStarts = [k \in 1..Len(p.posts) |-> 0],
                   !.pollingStart = 0,
                   !.leakedStarts = IF p.leaked > 0 THEN {0} ELSE {},
                   !.polls = [k \in 1..Len(p.polls) |->
                                 [p.polls[k] EXCEPT !.startTime = 0]]]

HasFreeSlot(ppBase) == \E i \in Instances : ppBase[i] = ProcessingInitial

FreeSlot(ppBase) == CHOOSE i \in Instances :
    /\ ppBase[i] = ProcessingInitial
    /\ \A j \in Instances : ppBase[j] = ProcessingInitial => i <= j

\* unmount: the effect's cleanup clears the timer pollingRef refers to
Unmount(p) ==
    Normalize([clearInterval(p) EXCEPT !.alive = FALSE])

RemoveAt(seq, k) == SubSeq(seq, 1, k - 1) \o SubSeq(seq, k + 1, Len(seq))

(* ------------------------------ rendering ----------------------------- *)
\* App re-renders with page, session s and config c; ppBase is pp as the
\* calling handler left it and req the request that handler issued.  A page
\* change unmounts the page shown and mounts the new one; mounting
\* ProcessingPage runs its effect.
Render(page, s, c, ppBase, req) ==
    /\ currentPage' = page
    /\ UNCHANGED viewer      \* ViewerPage's own state is followed under SpecViewer
    /\ IF page = currentPage
       THEN /\ pp' = ppBase
            /\ sent' = req
            /\ UNCHANGED <<up, xhr, xhrOld, localConfig, ppCur, ex, exReq, exOld, srv>>
       ELSE /\ Len(xhrOld) + Len(xhr) <= MaxOldUploads
            /\ Len(exOld) + Len(exReq) <= MaxOldExports
            /\ up' = UploadInitial
            /\ xhr' = <<>>
            /\ xhrOld' = xhrOld \o xhr
            /\ localConfig' = IF page = "configure" THEN InitialLocalConfig(c)
                                                    ELSE LocalConfigUnmounted
            /\ ex' = IF page = "export" THEN ExportInitial(c) ELSE ExportUnmounted
            /\ exReq' = <<>>
            /\ exOld' = exOld \o exReq
            /\ IF page = "processing"
               THEN /\ HasFreeSlot(ppBase)
                    /\ ppCur' = FreeSlot(ppBase)
                    /\ IF s = 0
                       THEN /\ pp' = [ppBase EXCEPT ![FreeSlot(ppBase)] = Mount(s, "failed")]
                            /\ sent' = req
                            /\ UNCHANGED srv
                       ELSE \E o \in AnnotateOutcomes(s, c) :
                            /\ pp' = [ppBase EXCEPT ![FreeSlot(ppBase)] = Mount(s, o)]
                            /\ sent' = AnnotateRequest(FreeSlot(ppBase), 1, s, c)
                            /\ srv' = IF o = "ok" THEN ServerStartRun(s) ELSE srv
               ELSE /\ pp' = IF ppCur = 0 THEN ppBase
                             ELSE [ppBase EXCEPT ![ppCur] = Unmount(@)]
                    /\ ppCur' = 0
                    /\ sent' = req
                    /\ UNCHANGED srv

\* navigate(page) called through a prop (onNavigate, onBack, onCancel,
\* onExport) by a handler that changes nothing else
navigate(page) ==
    /\ Render(page, session, config, pp, NoRequest)
    /\ called' = NoCall
    /\ UNCHANGED <<session, config, annotations>>

\* handleUploadComplete without setCurrentPage('configure')
handleUploadCompleteStaysOnPage(sessionData) ==
    /\ session' = sessionData
    /\ Render(currentPage, sessionData, config, pp, NoRequest)
    /\ called' = [kind |-> "onComplete", from |-> "upload", data |-> sessionData]
    /\ UNCHANGED <<config, annotations>>

handleUploadComplete(sessionData) ==
    /\ session' = sessionData
    /\ Render("configure", sessionData, config, pp, NoRequest)
    /\ called' = [kind |-> "onComplete", from |-> "upload", data |-> sessionData]
    /\ UNCHANGED <<config, annotations>>

handleConfigSubmit(newConfig) ==
    /\ config' = newConfig
    /\ Render("processing", session, newConfig, pp, NoRequest)
    /\ called' = [kind |-> "onSubmit", config |-> newConfig]
    /\ UNCHANGED <<session, annotations>>

\* called by ProcessingPage instance i, whose handleComplete issued req
handleProcessingComplete(annotationData, i, ppBase, req) ==
    /\ annotations' = annotationData
    /\ Render("viewer", session, config, ppBase, req)
    /\ called' = [kind |-> "onComplete", from |-> "processing", data |-> annotationData,
                  inst |-> i, alive |-> pp[i].alive]
    /\ UNCHANGED <<session, config>>

\* onNewProject with a setConfig back to the initial value
onNewProjectResetsConfig ==
    /\ session' = 0
    /\ annotations' = 0
    /\ Render("upload", 0, InitialConfig, pp, NoRequest)
    /\ called' = NoCall
    /\ config' = InitialConfig

\* onNewProject of the ExportPage element
onNewProject ==
    /\ session' = 0
    /\ annotations' = 0
    /\ Render("upload", 0, config, pp, NoRequest)
    /\ called' = NoCall
    /\ UNCHANGED config

(* ------------------------------ Sidebar ------------------------------- *)
currentStep == StepOf(currentPage)

\* isStepAccessible without the limit of one step beyond the current page
isStepAccessibleAnyStep(step) ==
    IF step = 1 THEN TRUE
    ELSE session # 0

isStepAccessible(step) ==
    IF step = 1 THEN TRUE
    ELSE IF session = 0 THEN FALSE
    ELSE step <= currentStep + 1

\* click on a nav item: onClick={() => accessible && onNavigate(item.id)};
\* a click on the item of the page shown changes nothing
SidebarClick(step) ==
    /\ navItems[step] # currentPage
    /\ called' = [kind |-> "click", step |-> step]
    /\ IF isStepAccessible(step)
       THEN /\ Render(navItems[step], session, config, pp, NoRequest)
            /\ UNCHANGED <<session, config, annotations, upDone, created>>
       ELSE /\ sent' = NoRequest
            /\ UNCHANGED <<viewer, appVars, upVars, localConfig, ppVars, exVars, srvVars>>


(* ------------------------- UploadPage handlers ------------------------ *)
handleDrop(droppedFile) ==
    /\ currentPage = "upload"
    /\ up.file = NoFile
    /\ up' = IF endsWith(droppedFile, DotZip)
             THEN [up EXCEPT !.file = droppedFile, !.error = NoError]
             ELSE [up EXCEPT !.error = "Please upload a ZIP file"]
    /\ called' = NoCall
    /\ sent' = NoRequest
    /\ UNCHANGED <<viewer, appVars, xhr, xhrOld, upDone, localConfig, ppVars, exVars, srvVars>>

handleFileSelect(selectedFile) ==
    /\ currentPage = "upload"
    /\ up.file = NoFile
    /\ up' = [up EXCEPT !.file = selectedFile, !.error = NoError]
    /\ called' = NoCall
    /\ sent' = NoRequest
    /\ UNCHANGED <<viewer, appVars, xhr, xhrOld, upDone, localConfig, ppVars, exVars, srvVars>>

handleRemoveFile ==
    /\ currentPage = "upload"
    /\ up.file # NoFile
    /\ ~up.uploading
    /\ up' = [up EXCEPT !.file = NoFile, !.error = NoError, !.previewImages = FALSE]
    /\ called' = NoCall
    /\ sent' = NoRequest
    /\ UNCHANGED <<viewer, appVars, xhr, xhrOld, upDone, localConfig, ppVars, exVars, srvVars>>

\* handleUpload up to the await of the XMLHttpRequest
handleUpload ==
    /\ currentPage = "upload"
    /\ up.file # NoFile
    /\ ~up.uploading
    /\ up' = [up EXCEPT !.uploading = TRUE, !.uploadProgress = 0, !.error = NoError]
    /\ xhr' = <<up.file>>
    /\ called' = NoCall
    /\ sent' = NoRequest
    /\ UNCHANGED <<viewer, appVars, xhrOld, upDone, localConfig, ppVars, exVars, srvVars>>

\* the percentage of a 'progress' event: part of the file, or all of it
ProgressValues == {50, 100}

\* xhr.upload 'progress' event
UploadProgress(progress) ==
    /\ xhr # <<>>
    /\ up' = [up EXCEPT !.uploadProgress = progress]
    /\ called' = NoCall
    /\ sent' = NoRequest
    /\ UNCHANGED <<viewer, appVars, xhr, xhrOld, upDone, localConfig, ppVars, exVars, srvVars>>

\* POST /api/upload accepts an archive and creates a session
ServerAcceptsUpload(file) == endsWith(file, DotZip)

\* 'load' with a 2xx status and a parsable body, then the rest of handleUpload:
\* the previews and the 500 ms timeout that will call onComplete(result)
UploadLoad ==
    /\ xhr # <<>>
    /\ ServerAcceptsUpload(xhr[1])
    /\ created < MaxSessions
    /\ created' = created + 1
    /\ up' = [up EXCEPT !.previewImages = TRUE]
    /\ upDone' = Append(upDone, created + 1)
    /\ xhr' = <<>>
    /\ called' = NoCall
    /\ sent' = NoRequest
    /\ UNCHANGED <<viewer, appVars, xhrOld, localConfig, ppVars, exVars, srv>>

UploadErrors ==
    {"Upload failed", "Invalid server response", "Network error", "Upload timeout"}

\* the catch block without setUploading(false)
UploadRejectedStillUploading(u, message) ==
    [u EXCEPT !.error = message, !.uploadProgress = 0]

\* the catch block of handleUpload
UploadRejected(u, message) ==
    [u EXCEPT !.error = message, !.uploading = FALSE, !.uploadProgress = 0]

\* 'load' with another status or an unparsable body, 'error' or 'timeout':
\* the promise rejects and the catch block runs
UploadFailure(message) ==
    /\ xhr # <<>>
    /\ up' = UploadRejected(up, message)
    /\ xhr' = <<>>
    /\ called' = NoCall
    /\ sent' = NoRequest
    /\ UNCHANGED <<viewer, appVars, xhrOld, upDone, localConfig, ppVars, exVars, srvVars>>

\* the same two outcomes for the request of an UploadPage that has unmounted:
\* its state setters do nothing, its timeout is still scheduled
OldUploadLoad ==
    /\ xhrOld # <<>>
    /\ ServerAcceptsUpload(xhrOld[1])
    /\ created < MaxSessions
    /\ created' = created + 1
    /\ upDone' = Append(upDone, created + 1)
    /\ xhrOld' = Tail(xhrOld)
    /\ called' = NoCall
    /\ sent' = NoRequest
    /\ UNCHANGED <<viewer, appVars, up, xhr, localConfig, ppVars, exVars, srv>>

OldUploadFailure ==
    /\ xhrOld # <<>>
    /\ xhrOld' = Tail(xhrOld)
    /\ called' = NoCall
    /\ sent' = NoRequest
    /\ UNCHANGED <<viewer, appVars, up, xhr, upDone, localConfig, ppVars, exVars, srvVars>>

\* setTimeout(() => onComplete(result), 500) fires, mounted or not
UploadTimeout ==
    /\ upDone # <<>>
    /\ upDone' = Tail(upDone)
    /\ handleUploadComplete(Head(upDone))
    /\ UNCHANGED created


(* ----------------------- ConfigurePage handlers ----------------------- *)
\* a handler that only calls setLocalConfig
SetLocalConfig(new) ==
    /\ currentPage = "configure"
    /\ localConfig' = new
    /\ called' = NoCall
    /\ sent' = NoRequest
    /\ UNCHANGED <<viewer, appVars, upVars, ppVars, exVars, srvVars>>

\* the prompt inputs are rendered only while skipDetection is off
handleObjectChange(index, value) ==
    /\ ~localConfig.skipDetection
    /\ index \in 1..Len(localConfig.objects)
    /\ SetLocalConfig([localConfig EXCEPT !.objects[index] = value])

addObject ==
    /\ ~localConfig.skipDetection
    /\ Len(localConfig.objects) < MaxObjects
    /\ SetLocalConfig([localConfig EXCEPT !.objects = Append(@, EmptyStr)])

\* the remove button is rendered only when there is more than one prompt
removeObject(index) ==
    /\ ~localConfig.skipDetection
    /\ Len(localConfig.objects) > 1
    /\ index \in 1..Len(localConfig.objects)
    /\ LET newObjects == RemoveAt(localConfig.objects, index)
       IN SetLocalConfig([localConfig EXCEPT
              !.objects = IF Len(newObjects) > 0 THEN newObjects ELSE <<EmptyStr>>])

handleSkipToggle(checked) ==
    /\ checked # localConfig.skipDetection
    /\ SetLocalConfig([localConfig EXCEPT
           !.skipDetection = checked,
           !.objects = IF checked THEN <<GenericObject>> ELSE <<EmptyStr>>])

\* onChange of the two sliders, the NMS toggle and the format radio buttons
setBoxThreshold(value) ==
    /\ value # localConfig.boxThreshold
    /\ SetLocalConfig([localConfig EXCEPT !.boxThreshold = value])

setTextThreshold(value) ==
    /\ value # localConfig.textThreshold
    /\ SetLocalConfig([localConfig EXCEPT !.textThreshold = value])

setRemoveOverlaps(checked) ==
    /\ checked # localConfig.removeOverlaps
    /\ SetLocalConfig([localConfig EXCEPT !.removeOverlaps = checked])

setExportFormat(value) ==
    /\ value # localConfig.exportFormat
    /\ SetLocalConfig([localConfig EXCEPT !.exportFormat = value])

\* the filter without the trim: objects.filter(obj => obj)
validObjectsNoTrim(objects) == SelectSeq(objects, LAMBDA obj : Truthy(obj))

\* localConfig.objects.filter(obj => obj.trim())
validObjects(objects) == SelectSeq(objects, LAMBDA obj : Truthy(trim(obj)))

SubmittedConfigSkipNoPrompt(lc) ==
    IF ~lc.skipDetection
    THEN [lc EXCEPT !.objects = validObjects(lc.objects)]
    ELSE [lc EXCEPT !.objects = <<>>]

\* the argument handleSubmit passes to onSubmit
SubmittedConfig(lc) ==
    IF ~lc.skipDetection
    THEN [lc EXCEPT !.objects = validObjects(lc.objects)]
    ELSE [lc EXCEPT !.objects = <<GenericObject>>]

\* handleSubmit: alert and return when no prompt is valid and skip is off
SubmitRejected(lc) == ~lc.skipDetection /\ Len(validObjects(lc.objects)) = 0

handleSubmit ==
    /\ currentPage = "configure"
    /\ IF SubmitRejected(localConfig)
       THEN /\ called' = [kind |-> "alert", from |-> "configure"]
            /\ sent' = NoRequest
            /\ UNCHANGED <<viewer, appVars, upVars, localConfig, ppVars, exVars, srvVars>>
       ELSE /\ handleConfigSubmit(SubmittedConfig(localConfig))
            /\ UNCHANGED <<upDone, created>>

\* Back button of the configure page
ConfigureBack ==
    /\ currentPage = "configure"
    /\ navigate("upload")
    /\ UNCHANGED <<upDone, created>>

(* ------------------------- ViewerPage handlers ------------------------ *)
ViewerExport ==
    /\ currentPage = "viewer"
    /\ navigate("export")
    /\ UNCHANGED <<upDone, created>>

ViewerBack ==
    /\ currentPage = "viewer"
    /\ navigate("configure")
    /\ UNCHANGED <<upDone, created>>

\* segmentations[i]
segmentationOf(a, i) ==
    IF i <= Len(a.segmentations) THEN a.segmentations[i] ELSE NoSegmentation

\* segmentation && segmentation.length > 0 && segmentation[0].length >= 6
HasPolygonAnyRing(segmentation) ==
    /\ segmentation.defined
    /\ Len(segmentation.rings) > 0
    /\ Len(segmentation.rings[1]) > 0

HasPolygon(segmentation) ==
    /\ segmentation.defined
    /\ Len(segmentation.rings) > 0
    /\ Len(segmentation.rings[1]) >= 6

\* moveTo(poly[0], poly[1]) and one lineTo for j = 2, 4, ... < poly.length
Vertices(poly) == 1 + (Len(poly) - 1) \div 2

\* a call on the canvas context for detection i: the style is the colour
\* and the opacity suffix of strokeStyle or fillStyle
CanvasCall(i, label, call, shape, vertices, rect, style) ==
    [det |-> i, label |-> label, call |-> call, shape |-> shape,
     vertices |-> vertices, rect |-> rect, style |-> style]

\* a || b, a ? b : c, a * b and a - b on numbers, undefined and NaN
IsNumber(v) == v \notin {Undefined, NaN}
TruthyNumber(v) == IsNumber(v) /\ v # 0
Or(a, b) == IF TruthyNumber(a) THEN a ELSE b
Times(a, b) == IF IsNumber(a) /\ IsNumber(b) THEN a * b ELSE NaN
Minus(a, b) == IF IsNumber(a) /\ IsNumber(b) THEN a - b ELSE NaN

\* x, y, w and h of the rectangle drawn for a box
BoxRect(box) ==
    <<Or(box.x1, Times(box.x, ImgWidth)),
      Or(box.y1, Times(box.y, ImgHeight)),
      IF TruthyNumber(box.x2) THEN Minus(box.x2, box.x1)
                              ELSE Times(box.width, ImgWidth),
      IF TruthyNumber(box.y2) THEN Minus(box.y2, box.y1)
                              ELSE Times(box.height, ImgHeight)>>

\* labels[i] || 'unknown'
labelOf(a, i) == IF i <= Len(a.labels) THEN a.labels[i] ELSE "unknown"

\* the polygon of the first ring, filled and outlined, or else the box
DrawShape(a, i, label, color) ==
    IF HasPolygon(segmentationOf(a, i))
    THEN LET poly == segmentationOf(a, i).rings[1]
         IN  <<CanvasCall(i, label, "fill", "polygon", Vertices(poly), <<>>,
                          <<color, "30">>),
               CanvasCall(i, label, "stroke", "polygon", Vertices(poly), <<>>,
                          <<color, "">>)>>
    ELSE <<CanvasCall(i, label, "strokeRect", "box", 4, BoxRect(a.boxes[i]),
                      <<color, "">>),
           CanvasCall(i, label, "fillRect", "box", 4, BoxRect(a.boxes[i]),
                      <<color, "20">>)>>

DrawLabel(i, label, color) ==
    <<CanvasCall(i, label, "fillRect", "label", 4, <<>>, <<color, "">>),
      CanvasCall(i, label, "fillText", "label", 0, <<>>, <<"white", "">>)>>

\* one iteration of boxes.forEach under the closure c
DrawDetection(c, i) ==
    LET a == c.currentAnnotation
        label == labelOf(a, i)
        color == getClassColor(c.classes, label)
    IN  IF c.selectedClass # "all" /\ label # c.selectedClass
        THEN <<>>
        ELSE DrawShape(a, i, label, color)
                 \o (IF c.showLabels THEN DrawLabel(i, label, color) ELSE <<>>)

RECURSIVE DrawFrom(_, _)
DrawFrom(c, i) ==
    IF i > Len(c.currentAnnotation.boxes) THEN <<>>
    ELSE DrawDetection(c, i) \o DrawFrom(c, i + 1)

\* the class filter: 'all' or one of the classes of the annotations
ClassOptions ==
    LET classes == classesOf(viewer.annotations)
    IN  {"all"} \cup {classes[i] : i \in 1..Len(classes)}

\* a click on the gallery item of another image
setSelectedImage(index) ==
    /\ currentPage = "viewer"
    /\ index \in 1..Len(viewer.annotations.images)
    /\ index # viewer.selectedImage
    /\ Len(viewer.loading) < MaxImageLoads
    /\ viewer' = Redraw([viewer EXCEPT
                           !.selectedImage = index,
                           !.stats = Stats(viewer.annotations),
                           !.currentAnnotation =
                               currentAnnotationOf(viewer.annotations, index)])
    /\ sent' = NoRequest
    /\ called' = NoCall
    /\ UNCHANGED <<appVars, upVars, localConfig, ppVars, exVars, srvVars>>

setSelectedClass(cls) ==
    /\ currentPage = "viewer"
    /\ cls \in ClassOptions
    /\ cls # viewer.selectedClass
    /\ Len(viewer.loading) < MaxImageLoads
    /\ viewer' = Redraw([viewer EXCEPT !.selectedClass = cls])
    /\ sent' = NoRequest
    /\ called' = NoCall
    /\ UNCHANGED <<appVars, upVars, localConfig, ppVars, exVars, srvVars>>

setShowLabels ==
    /\ currentPage = "viewer"
    /\ Len(viewer.loading) < MaxImageLoads
    /\ viewer' = Redraw([viewer EXCEPT !.showLabels = ~@])
    /\ sent' = NoRequest
    /\ called' = NoCall
    /\ UNCHANGED <<appVars, upVars, localConfig, ppVars, exVars, srvVars>>

\* img.onload of the k-th image still loading: setting the canvas size
\* clears the canvas, then every detection is drawn
ImgOnload(k) ==
    /\ currentPage = "viewer"
    /\ k \in 1..Len(viewer.loading)
    /\ viewer' = [viewer EXCEPT
                    !.canvas = DrawFrom(viewer.loading[k], 1),
                    !.loading = RemoveAt(@, k)]
    /\ sent' = NoRequest
    /\ called' = NoCall
    /\ UNCHANGED <<appVars, upVars, localConfig, ppVars, exVars, srvVars>>


(* ------------------------- ExportPage handlers ------------------------ *)
\* POST /api/export: rejected for an unknown format or a session without a
\* completed annotation set
ServerAcceptsExport(s, format) ==
    /\ s \in 1..created
    /\ format \in {"coco", "yolo", "voc", "roboflow"}
    /\ srv[s].status = "completed"

setSelectedFormat(value) ==
    /\ currentPage = "export"
    /\ ~ex.exportComplete
    /\ value # ex.selectedFormat
    /\ ex' = [ex EXCEPT !.selectedFormat = value]
    /\ called' = NoCall
    /\ sent' = NoRequest
    /\ UNCHANGED <<viewer, appVars, upVars, localConfig, ppVars, exReq, exOld, srvVars>>

\* handleExport up to the await of fetch; with a null session the template
\* literal throws and catch/finally run at once
handleExport ==
    /\ currentPage = "export"
    /\ ~ex.exportComplete
    /\ ~ex.exporting
    /\ IF session = 0
       THEN /\ called' = [kind |-> "alert", from |-> "export"]
            /\ sent' = NoRequest
            /\ UNCHANGED <<ex, exReq>>
       ELSE /\ ex' = [ex EXCEPT !.exporting = TRUE]
            /\ exReq' = <<[sid |-> session, format |-> ex.selectedFormat]>>
            /\ called' = NoCall
            /\ sent' = [kind |-> "export", sid |-> session, format |-> ex.selectedFormat]
    /\ UNCHANGED <<viewer, appVars, upVars, localConfig, ppVars, exOld, srvVars>>

\* setExportComplete(true) moved from the try block to the finally block
ExportSettledAlwaysComplete(e, ok) == [e EXCEPT !.exporting = FALSE, !.exportComplete = TRUE]

\* the ExportPage state once the request has ended: setExportComplete(true)
\* at the end of the try block, setExporting(false) in the finally block
ExportSettled(e, ok) ==
    [e EXCEPT !.exporting = FALSE, !.exportComplete = IF ok THEN TRUE ELSE @]

\* what the rest of handleExport calls: a.click() starts the download, the
\* catch block alerts
ExportCall(ok) ==
    IF ok THEN [kind |-> "download", from |-> "export"]
    ELSE [kind |-> "alert", from |-> "export"]

\* the response arrives and handleExport resumes after its await
ExportReturn(ok) ==
    /\ exReq # <<>>
    /\ ok => ServerAcceptsExport(Head(exReq).sid, Head(exReq).format)
    /\ ex' = ExportSettled(ex, ok)
    /\ exReq' = <<>>
    /\ called' = ExportCall(ok)
    /\ sent' = NoRequest
    /\ UNCHANGED <<viewer, appVars, upVars, localConfig, ppVars, exOld, srvVars>>

\* the same for the request of an ExportPage that has unmounted: its state
\* setters do nothing
OldExportReturn(ok) ==
    /\ exOld # <<>>
    /\ ok => ServerAcceptsExport(Head(exOld).sid, Head(exOld).format)
    /\ exOld' = Tail(exOld)
    /\ called' = ExportCall(ok)
    /\ sent' = NoRequest
    /\ UNCHANGED <<viewer, appVars, upVars, localConfig, ppVars, ex, exReq, srvVars>>

\* 'Export Another Format'
ExportAnother ==
    /\ currentPage = "export"
    /\ ex.exportComplete
    /\ ex' = [ex EXCEPT !.exportComplete = FALSE]
    /\ called' = NoCall
    /\ sent' = NoRequest
    /\ UNCHANGED <<viewer, appVars, upVars, localConfig, ppVars, exReq, exOld, srvVars>>

\* 'Start New Project'
StartNewProject ==
    /\ currentPage = "export"
    /\ ex.exportComplete
    /\ onNewProject
    /\ UNCHANGED <<upDone, created>>

\* 'Back to Viewer'
ExportBack ==
    /\ currentPage = "export"
    /\ ~ex.exportComplete
    /\ navigate("viewer")
    /\ UNCHANGED <<upDone, created>>


(* ----------------------- ProcessingPage handlers ---------------------- *)
\* a state setter of a component does nothing once it has unmounted
SetState(p, field, value) == IF p.alive THEN [p EXCEPT ![field] = value] ELSE p

\* startPolling: a new interval timer, stored in pollingRef; the timer
\* pollingRef
\* referred to is not cleared.  The interval callback closes over the
\* startTime of the startProcessing call
startPolling(p, start) ==
    [p EXCEPT !.leaked = @ + p.pollingRef,
              !.leakedStarts = IF p.pollingRef = 1 THEN @ \cup {p.pollingStart} ELSE @,
              !.pollingRef = 1, !.pollingStart = start]

\* startAnnotation after its await: true on a 2xx response, otherwise the
\* catch block sets status 'error' and it returns false
startAnnotationResult(p, o) ==
    IF o = "ok" THEN p
    ELSE [SetState(p, "status", "error") EXCEPT !.failedStart = TRUE]

\* the annotate request comes back and startProcessing resumes after its
\* await: startAnnotation's result is not looked at, startPolling() is called
AnnotateReturn(i, k) ==
    /\ k \in 1..Len(pp[i].posts)
    /\ LET o == pp[i].posts[k]
           start == pp[i].postStarts[k]
           p1 == [pp[i] EXCEPT !.posts = RemoveAt(@, k), !.postStarts = RemoveAt(@, k)]
       IN pp' = [pp EXCEPT ![i] = Normalize(startPolling(startAnnotationResult(p1, o),
                                                         start))]
    /\ called' = NoCall
    /\ sent' = NoRequest
    /\ UNCHANGED <<viewer, appVars, upVars, localConfig, ppCur, exVars, srvVars>>

\* responses in flight, kept in a canonical order (they arrive in any order)
Rank(r) ==
    (CASE r.status = "queued" -> 0 [] r.status = "processing" -> 1
       [] r.status = "completed" -> 2 [] r.status = "error" -> 3 [] OTHER -> 4)
    * (NumImages + 2) * (MaxRetries + 2)
    + r.processed_count * (MaxRetries + 2) + r.startTime

Insert(seq, r) ==
    LET before == SelectSeq(seq, LAMBDA x : Rank(x) <= Rank(r))
        after == SelectSeq(seq, LAMBDA x : Rank(x) > Rank(r))
    IN before \o <<r>> \o after

\* the startTime the callbacks of the live timers close over
TimerStarts(p) ==
    (IF p.pollingRef = 1 THEN {p.pollingStart} ELSE {}) \cup p.leakedStarts

\* the response of GET /api/status with the startTime its callback sees
StatusResponse(s, start) ==
    [status |-> ServerStatus(s).status,
     processed_count |-> ServerStatus(s).processed_count,
     progress |-> ServerStatus(s).progress, startTime |-> start]

\* a tick of one of the instance's interval timers: GET /api/status, which
\* the server answers; the response is then in flight
PollTick(i) ==
    /\ Timers(pp[i]) > 0
    /\ Len(pp[i].polls) + pp[i].timeouts < MaxInFlight
    /\ \E start \in TimerStarts(pp[i]) :
          pp' = [pp EXCEPT ![i].polls = Insert(@, StatusResponse(pp[i].sid, start))]
    /\ called' = NoCall
    /\ sent' = [kind |-> "status", inst |-> i, sid |-> pp[i].sid, alive |-> pp[i].alive,
                failedStart |-> pp[i].failedStart, posting |-> Len(pp[i].posts) > 0,
                threw |-> FALSE]
    /\ UNCHANGED <<viewer, appVars, upVars, localConfig, ppCur, exVars, srvVars>>

\* the catch block of the interval callback as handleComplete's is written
PollingErrorSetsStatus(p) == SetState(p, "status", "error")

\* the catch block of the interval callback: console.error only
PollingError(p) == p

\* a tick whose fetch() or response.json() throws
PollTickFailed(i) ==
    /\ Timers(pp[i]) > 0
    /\ pp' = [pp EXCEPT ![i] = PollingError(@)]
    /\ called' = NoCall
    /\ sent' = [kind |-> "status", inst |-> i, sid |-> pp[i].sid, alive |-> pp[i].alive,
                failedStart |-> pp[i].failedStart, posting |-> Len(pp[i].posts) > 0,
                threw |-> TRUE]
    /\ UNCHANGED <<viewer, appVars, upVars, localConfig, ppCur, exVars, srvVars>>

\* if (startTime && data.processed_count > 0) setEta(...), with the
\* startTime of the callback's closure
CalculateEta(p, data) ==
    IF data.startTime # 0 /\ data.processed_count > 0
    THEN SetState(p, "eta", data.startTime)
    ELSE p

\* the interval callback without its branch for status 'error'
ApplyStatusIgnoresError(p, data) ==
    LET p1 == CalculateEta(SetState(SetState(p, "progress", data.progress),
                                    "processedCount", data.processed_count), data)
    IN IF data.status = "completed"
       THEN [clearInterval(SetState(SetState(p1, "status", "completed"), "progress", 100))
                EXCEPT !.timeouts = @ + 1]
       ELSE p1

\* the body of the interval callback after its awaits, for response data
ApplyStatus(p, data) ==
    LET p1 == CalculateEta(SetState(SetState(p, "progress", data.progress),
                                    "processedCount", data.processed_count), data)
    IN IF data.status = "completed"
       THEN [clearInterval(SetState(SetState(p1, "status", "completed"), "progress", 100))
                EXCEPT !.timeouts = @ + 1]
       ELSE IF data.status = "error"
       THEN clearInterval(SetState(p1, "status", "error"))
       ELSE p1

\* a status response is handled; responses in flight arrive in any order
PollApply(i, k) ==
    /\ k \in 1..Len(pp[i].polls)
    /\ LET data == pp[i].polls[k]
           p1 == [pp[i] EXCEPT !.polls = RemoveAt(@, k)]
       IN /\ pp' = [pp EXCEPT ![i] = Normalize(ApplyStatus(p1, data))]
    /\ called' = NoCall
    /\ sent' = NoRequest
    /\ UNCHANGED <<viewer, appVars, upVars, localConfig, ppCur, exVars, srvVars>>

\* setTimeout(() => handleComplete(), 1000) fires and handleComplete runs:
\* GET /api/annotations, then onComplete(data), or the catch block when the
\* fetch or response.json() throws
handleComplete(i, ok) ==
    /\ pp[i].timeouts > 0
    /\ LET p1 == [pp[i] EXCEPT !.timeouts = @ - 1, !.fetchedOnce = TRUE]
           req == [kind |-> "annotations", inst |-> i, sid |-> pp[i].sid,
                   again |-> pp[i].fetchedOnce]
       IN IF ok
          THEN /\ handleProcessingComplete(pp[i].sid, i,
                                           [pp EXCEPT ![i] = Normalize(p1)], req)
               /\ UNCHANGED <<upDone, created>>
          ELSE /\ pp' = [pp EXCEPT ![i] = Normalize(SetState(p1, "status", "error"))]
               /\ called' = NoCall
               /\ sent' = req
               /\ UNCHANGED <<viewer, appVars, upVars, localConfig, ppCur, exVars,
                              srvVars>>

\* the action buttons rendered during the run as well
ActionsOfferedWhileProcessing(p) == p.status \in {"error", "processing"}

\* the action buttons (Back to Configure, Retry) are rendered
ActionsOffered(p) == p.status = "error"

\* Retry, rendered only in status 'error'
handleRetry ==
    /\ currentPage = "processing"
    /\ ppCur # 0
    /\ ActionsOffered(pp[ppCur])
    /\ pp[ppCur].attempt <= MaxRetries
    /\ LET p1 == [pp[ppCur] EXCEPT !.hasStarted = FALSE, !.status = "connecting",
                                   !.progress = 0, !.processedCount = 0]
       IN \E o \in AnnotateOutcomes(session, config) :
            /\ pp' = [pp EXCEPT ![ppCur] = startProcessing(p1, o)]
            /\ srv' = IF o = "ok" THEN ServerStartRun(session) ELSE srv
    /\ called' = NoCall
    /\ sent' = AnnotateRequest(ppCur, pp[ppCur].attempt + 1, session, config)
    /\ UNCHANGED <<viewer, appVars, upVars, localConfig, ppCur, exVars, created>>

\* 'Back to Configure', rendered only in status 'error'
ProcessingCancel ==
    /\ currentPage = "processing"
    /\ ppCur # 0
    /\ ActionsOffered(pp[ppCur])
    /\ navigate("configure")
    /\ UNCHANGED <<upDone, created>>

(* --------------------------- server progress -------------------------- *)
ServerStep(s, new) ==
    /\ s \in 1..created
    /\ srv[s].status = "processing"
    /\ srv' = [srv EXCEPT ![s] = new]
    /\ called' = NoCall
    /\ sent' = NoRequest
    /\ UNCHANGED <<viewer, appVars, upVars, localConfig, ppVars, exVars, created>>

\* one more image processed (or skipped as unreadable)
ServerProcessImage(s) ==
    /\ srv[s].count < NumImages
    /\ ServerStep(s, [srv[s] EXCEPT !.count = @ + 1])

\* all images processed
ServerComplete(s) ==
    /\ srv[s].count = NumImages
    /\ ServerStep(s, [srv[s] EXCEPT !.status = "completed"])

\* an inference-service error is fatal to the run
ServerFail(s) ==
    /\ srv[s].count < NumImages
    /\ ServerStep(s, [srv[s] EXCEPT !.status = "error"])


(* --------------------------- specifications --------------------------- *)
Init ==
    /\ currentPage = "upload"
    /\ session = 0
    /\ config = InitialConfig
    /\ annotations = 0
    /\ up = UploadInitial
    /\ xhr = <<>>
    /\ xhrOld = <<>>
    /\ upDone = <<>>
    /\ localConfig = LocalConfigUnmounted
    /\ pp = [i \in Instances |-> ProcessingInitial]
    /\ ppCur = 0
    /\ ex = ExportUnmounted
    /\ exReq = <<>>
    /\ exOld = <<>>
    /\ viewer = ViewerUnmounted
    /\ srv = [s \in Sessions |-> ServerInitial]
    /\ created = 0
    /\ sent = NoRequest
    /\ called = NoCall

\* the upload page: a file is chosen and uploaded; the request succeeds or
\* fails, also after the page has been left
UploadNext ==
    \/ handleFileSelect(ZipFile)
    \/ handleUpload
    \/ UploadLoad
    \/ UploadFailure("Network error")
    \/ OldUploadLoad
    \/ OldUploadFailure
    \/ UploadTimeout

\* navigation: the sidebar (a disabled nav item receives no clicks) and the
\* pages' back and forward buttons
NavigationNext ==
    \/ \E step \in 1..Len(navItems) : isStepAccessible(step) /\ SidebarClick(step)
    \/ ConfigureBack
    \/ ViewerExport
    \/ ViewerBack
    \/ ExportBack
    \/ ProcessingCancel

\* the annotate requests of the processing page
AnnotateNext ==
    \/ \E i \in Instances : \E k \in 1..(MaxRetries + 1) : AnnotateReturn(i, k)
    \/ handleRetry

\* the processing page's polling and the server's run
PollingNext ==
    \/ \E i \in Instances : PollTick(i)
    \/ \E i \in Instances : PollTickFailed(i)
    \/ \E i \in Instances : \E k \in 1..MaxInFlight : PollApply(i, k)
    \/ \E i \in Instances : \E ok \in BOOLEAN : handleComplete(i, ok)
    \/ \E s \in Sessions : ServerProcessImage(s)
    \/ \E s \in Sessions : ServerComplete(s)
    \/ \E s \in Sessions : ServerFail(s)

\* the export request
ExportNext ==
    \/ handleExport
    \/ \E ok \in BOOLEAN : ExportReturn(ok)
    \/ \E ok \in BOOLEAN : OldExportReturn(ok)

\* The workflow up to the review: every page change, request, timer and
\* callback of the application from the upload to the viewer and export
\* pages, with one prompt typed on the configure page.  The export request
\* and what follows it are left to SpecExport.
Next ==
    \/ UploadNext
    \/ NavigationNext
    \/ AnnotateNext
    \/ PollingNext
    \/ handleObjectChange(1, Ball)
    \/ handleSubmit

Spec == Init /\ [][Next]_vars

\* what the user types into a prompt input
PromptInputs == {Blank, Ball, PaddedCar}

\* the configure page's prompt list, skip and overlap toggles and Start
ConfigureNext ==
    \/ \E index \in 1..MaxObjects : \E value \in PromptInputs :
          handleObjectChange(index, value)
    \/ addObject
    \/ \E index \in 1..MaxObjects : removeObject(index)
    \/ \E checked \in BOOLEAN : handleSkipToggle(checked)
    \/ \E checked \in BOOLEAN : setRemoveOverlaps(checked)
    \/ handleSubmit

\* The prompts: every prompt list the user can enter and submit, and every
\* annotate request that carries it.  The run itself (polling, the server's
\* progress) and what follows a finished run are left to Spec.
NextConfigure ==
    \/ UploadNext
    \/ NavigationNext
    \/ AnnotateNext
    \/ ConfigureNext

SpecConfigure == Init /\ [][NextConfigure]_vars

\* The prompts with a user who keeps working: some step is always taken,
\* and whenever the form can be submitted again and again, it eventually is.
SpecConfigureFair ==
    /\ SpecConfigure
    /\ WF_vars(NextConfigure)
    /\ SF_vars(handleSubmit /\ ~SubmitRejected(localConfig))

\* the format radio buttons of the configure and export pages
FormatNext ==
    \/ \E value \in formatOptions : setExportFormat(value)
    \/ \E value \in formatOptions : setSelectedFormat(value)

\* The formats: every format the user can pick on either page, and every
\* annotate and export request that carries one, with one prompt typed on
\* the configure page.  The run itself is left to Spec.
NextFormat ==
    \/ UploadNext
    \/ NavigationNext
    \/ AnnotateNext
    \/ ExportNext
    \/ FormatNext
    \/ handleObjectChange(1, Ball)
    \/ handleSubmit

SpecFormat == Init /\ [][NextFormat]_vars

\* a run that the server completes, polled by the processing page
RunNext ==
    \/ \E i \in Instances : \E k \in 1..(MaxRetries + 1) : AnnotateReturn(i, k)
    \/ \E i \in Instances : PollTick(i)
    \/ \E i \in Instances : \E k \in 1..MaxInFlight : PollApply(i, k)
    \/ \E i \in Instances : \E ok \in BOOLEAN : handleComplete(i, ok)
    \/ \E s \in Sessions : ServerProcessImage(s)
    \/ \E s \in Sessions : ServerComplete(s)

\* The export: the workflow through a run that completes, the export
\* request with both of its outcomes, on the page or after it was left, and
\* Start New Project.  Retry and the failures of the run are left to Spec.
NextExport ==
    \/ UploadNext
    \/ NavigationNext
    \/ RunNext
    \/ ExportNext
    \/ StartNewProject
    \/ handleObjectChange(1, Ball)
    \/ handleSubmit

SpecExport == Init /\ [][NextExport]_vars

\* the text slider dragged to either end
TextSliderEnds == {v \in SliderValues : v - SliderStep < SliderMin \/ v + SliderStep > SliderMax}

\* the threshold sliders of the configure page: the box slider at every
\* position, the text slider at either end
SettingsNext ==
    \/ \E value \in SliderValues : setBoxThreshold(value)
    \/ \E value \in TextSliderEnds : setTextThreshold(value)

\* The thresholds: every pair of thresholds the user can submit with one
\* prompt, and every annotate request that carries it.  The run itself is
\* left to Spec.
NextSettings ==
    \/ UploadNext
    \/ NavigationNext
    \/ AnnotateNext
    \/ SettingsNext
    \/ handleObjectChange(1, Ball)
    \/ handleSubmit

SpecSettings == Init /\ [][NextSettings]_vars

\* the upload page with every file, progress event and failure
UploadPageNext ==
    \/ \E f \in FileNames : handleDrop(f)
    \/ \E f \in FileNames : handleFileSelect(f)
    \/ handleRemoveFile
    \/ handleUpload
    \/ \E progress \in ProgressValues : UploadProgress(progress)
    \/ UploadLoad
    \/ \E message \in UploadErrors : UploadFailure(message)
    \/ OldUploadLoad
    \/ OldUploadFailure
    \/ UploadTimeout

\* The uploads: every file the user can drop or pick, every way the request
\* can end, on the page or after it was left, and the navigation around it.
\* The run itself is left to Spec.
NextUpload ==
    \/ UploadPageNext
    \/ NavigationNext
    \/ AnnotateNext

SpecUpload == Init /\ [][NextUpload]_vars

\* The uploads with the browser's timers running: a timeout set by
\* handleUpload fires 500 ms later whatever the user does meanwhile, and an
\* upload request ends, by xhr.timeout after ten minutes at the latest.
\* The fairness of the timeout is strong because Render's bounds on the
\* requests left behind by unmounted pages disable the step in some states
\* of the model; in the browser nothing disables a timer that is due.
SpecUploadFair ==
    /\ SpecUpload
    /\ SF_vars(UploadTimeout)
    /\ WF_vars(OldUploadLoad \/ OldUploadFailure)

\* The run watched to its end: the user uploads, submits and stays on the
\* processing page while it shows no buttons; the run completes or fails on
\* the server, polls fail or are answered; from 'error' the user retries or
\* goes back, and from the viewer and configure pages back to a new upload.
NextRun ==
    \/ handleFileSelect(ZipFile)
    \/ handleUpload
    \/ UploadLoad
    \/ UploadFailure("Network error")
    \/ UploadTimeout
    \/ handleObjectChange(1, Ball)
    \/ handleSubmit
    \/ RunNext
    \/ \E i \in Instances : PollTickFailed(i)
    \/ \E s \in Sessions : ServerFail(s)
    \/ handleRetry
    \/ ProcessingCancel
    \/ ViewerBack
    \/ ConfigureBack

SpecRun == Init /\ [][NextRun]_vars

\* for every page instance the annotate request returns, the interval timer
\* keeps ticking, its status requests are answered and the completion delay
\* expires; the server's run of every session goes on until it has completed
\* or failed
SpecRunFair ==
    /\ SpecRun
    /\ \A i \in Instances :
          /\ WF_vars(\E k \in 1..(MaxRetries + 1) : AnnotateReturn(i, k))
          /\ WF_vars(PollTick(i))
          /\ WF_vars(\E k \in 1..MaxInFlight : PollApply(i, k))
          /\ WF_vars(\E ok \in BOOLEAN : handleComplete(i, ok))
    /\ \A s \in Sessions :
          WF_vars(ServerProcessImage(s) \/ ServerComplete(s) \/ ServerFail(s))

\* every nav item of the sidebar clicked, the disabled ones included
SidebarNext == \E step \in 1..Len(navItems) : SidebarClick(step)

\* The sidebar: clicks on every nav item from every page the upload, the
\* submit and the buttons lead to.
NextSidebar ==
    \/ UploadNext
    \/ NavigationNext
    \/ AnnotateNext
    \/ SidebarNext
    \/ handleObjectChange(1, Ball)
    \/ handleSubmit

SpecSidebar == Init /\ [][NextSidebar]_vars

\* the viewer page as handleProcessingComplete shows it after the run of the
\* first session: the detections of the image shown are the server's
AfterFirstRun ==
    /\ currentPage = "viewer"
    /\ session = 1
    /\ config = SubmittedConfig([InitialLocalConfig(InitialConfig)
                                    EXCEPT !.objects = <<Ball>>])
    /\ annotations = 1
    /\ up = UploadInitial
    /\ xhr = <<>>
    /\ xhrOld = <<>>
    /\ upDone = <<>>
    /\ localConfig = LocalConfigUnmounted
    /\ pp = [i \in Instances |-> ProcessingInitial]
    /\ ppCur = 0
    /\ ex = ExportUnmounted
    /\ exReq = <<>>
    /\ exOld = <<>>
    /\ srv = [s \in Sessions |-> IF s = 1
                                 THEN [status |-> "completed", count |-> NumImages]
                                 ELSE ServerInitial]
    /\ created = 1
    /\ sent = [kind |-> "annotations", sid |-> 1, inst |-> 1, again |-> FALSE]
    /\ called = [kind |-> "onComplete", from |-> "processing", data |-> 1,
                 inst |-> 1, alive |-> TRUE]

InitViewer ==
    /\ AfterFirstRun
    /\ viewer \in {ViewerInitial(SingleImage(a)) :
                    a \in CurrentAnnotations \cup BoxAnnotations}

ViewerPageNext ==
    \/ \E cls \in {"all"} \cup Labels : setSelectedClass(cls)
    \/ setShowLabels
    \/ \E k \in 1..MaxImageLoads : ImgOnload(k)

NextViewer == ViewerPageNext

SpecViewer == InitViewer /\ [][NextViewer]_vars

\* annotation sets of several images: eight class names, so that the palette
\* of seven colours wraps around
ClassNames == <<"ball", "car", "cat", "dog", "cup", "bus", "kite", "tree">>

ImagePaths == <<"img1", "img2", "img3", "img4">>

ClassName(m) == ClassNames[(m % Len(ClassNames)) + 1]

Detections(labels) ==
    [boxes |-> [j \in 1..Len(labels) |-> InnerBox], labels |-> labels,
     segmentations |-> <<>>]

\* n images with two detections each: of classes that differ from image to
\* image, or with the first class on every image
ColourAnnotationSets ==
    {AnnotationSet(SubSeq(ImagePaths, 1, n),
                   [j \in 1..n |->
                       [path |-> ImagePaths[j],
                        ann |-> Detections(<<ClassName(r + 2 * j - 2),
                                             ClassName(r + 2 * j - 1)>>)]]) :
        r \in 0..(Len(ClassNames) - 1), n \in 1..Len(ImagePaths)}
    \cup
    {AnnotationSet(SubSeq(ImagePaths, 1, n),
                   [j \in 1..n |->
                       [path |-> ImagePaths[j],
                        ann |-> Detections(<<ClassName(r), ClassName(r + j)>>)]]) :
        r \in 0..(Len(ClassNames) - 1), n \in 1..Len(ImagePaths)}

InitColours ==
    /\ AfterFirstRun
    /\ viewer \in {ViewerInitial(set) : set \in ColourAnnotationSets}

NextColours ==
    \/ \E index \in 1..Len(ImagePaths) : setSelectedImage(index)
    \/ \E k \in 1..MaxImageLoads : ImgOnload(k)

SpecColours == InitColours /\ [][NextColours]_vars

\* GET /api/annotations of a completed run: the images in upload order and,
\* for each image that has one, its list of detections; no annotation is
\* for an image that is not in the list
EntriesOf(images, counts) ==
    LET kept == SelectSeq([j \in 1..Len(images) |-> j], LAMBDA j : counts[j] >= 0)
    IN  [m \in 1..Len(kept) |->
            [path |-> images[kept[m]],
             ann |-> Detections([d \in 1..counts[kept[m]] |-> "ball"])]]

ReturnedAnnotationSets ==
    UNION {{AnnotationSet(SubSeq(ImagePaths, 1, n),
                          EntriesOf(SubSeq(ImagePaths, 1, n), counts)) :
               counts \in [1..n -> -1..MaxDetections]} :
           n \in 0..(Len(ImagePaths) - 1)}

InitGallery ==
    /\ AfterFirstRun
    /\ viewer \in {ViewerInitial(set) : set \in ReturnedAnnotationSets}

NextGallery ==
    \/ \E index \in 1..Len(ImagePaths) : setSelectedImage(index)
    \/ \E k \in 1..MaxImageLoads : ImgOnload(k)

SpecGallery == InitGallery /\ [][NextGallery]_vars

(* ------------------------------ properties ---------------------------- *)
\* a prompt that is non-empty after trimming: it has a character other
\* than a space
NonBlank(obj) == \E k \in 1..Len(obj) : obj[k] # " "

\* handleConfigSubmit has been called: it is the only handler that sets
\* config, and what it sets has at least one prompt
ConfigSubmitted == config # InitialConfig

\* C1: every POST /api/annotate carries a non-empty objects list whose
\* entries are all non-empty after trimming, however the processing page was
\* entered.
C1_AnnotatePromptsNonEmpty ==
    sent.kind = "annotate" =>
        /\ Len(sent.body.objects) > 0
        /\ \A k \in 1..Len(sent.body.objects) : NonBlank(sent.body.objects[k])

\* C2: after a rejected or failed POST /api/annotate, no GET /api/status is
\* issued for that attempt.
C2_NoPollAfterFailedStart ==
    ~(sent.kind = "status" /\ sent.failedStart)

\* C3: POST /api/annotate is sent for a session only when no run started
\* for that session is still unfinished.
C3_NoSecondRunInFlight ==
    sent.kind = "annotate" => ~sent.overlaps

\* C4: whenever annotations and session are both non-null, the annotations
\* were fetched for that session.
C4_AnnotationsOfSession ==
    (annotations # 0 /\ session # 0) => annotations = session

\* C5: within one attempt of a mounted ProcessingPage, the processed count
\* displayed never decreases from one step to the next.
C5_ProcessedCountMonotone ==
    [][\A i \in Instances :
          (pp[i].alive /\ pp'[i].alive /\ pp'[i].attempt = pp[i].attempt)
              => pp'[i].processedCount >= pp[i].processedCount]_vars

\* C6: whenever the current page is 'viewer' or 'export', annotations is
\* non-null.
C6_ReviewNeedsAnnotations ==
    currentPage \in {"viewer", "export"} => annotations # 0

\* C7: within one attempt, GET /api/annotations is issued (handleComplete
\* runs) at most once.
C7_FetchedAtMostOnce ==
    sent.kind = "annotations" => ~sent.again

\* C8: the body of every POST /api/annotate has exactly the five fields
\* objects, box_threshold, text_threshold, use_sam and export_format, each
\* equal to the value in the configuration last submitted from the configure
\* page.
C8_BodyFromSubmittedConfig ==
    sent.kind = "annotate" =>
        /\ ConfigSubmitted
        /\ DOMAIN sent.body =
             {"objects", "box_threshold", "text_threshold", "use_sam", "export_format"}
        /\ sent.body.objects = config.objects
        /\ sent.body.box_threshold = config.boxThreshold
        /\ sent.body.text_threshold = config.textThreshold
        /\ sent.body.use_sam = config.useSam
        /\ sent.body.export_format = config.exportFormat

\* the prompts of a list that are non-empty after trimming, in their order
KeptPrompts(objects) == SelectSeq(objects, NonBlank)

\* C9: handleSubmit with skip detection off and no prompt that is non-empty
\* after trimming is rejected (onSubmit is not called, config is unchanged,
\* the page stays 'configure'); otherwise onSubmit receives exactly the
\* prompts that are non-empty after trimming, in their original order.
C9_SubmitFiltersPrompts ==
    [][/\ (~localConfig.skipDetection /\ KeptPrompts(localConfig.objects) = <<>>)
            => (called'.kind # "onSubmit" /\ config' = config)
       /\ (called'.kind = "alert" /\ called'.from = "configure")
            => /\ ~localConfig.skipDetection
               /\ KeptPrompts(localConfig.objects) = <<>>
               /\ currentPage = "configure" /\ currentPage' = "configure"
               /\ config' = config
       /\ called'.kind = "onSubmit"
            => /\ currentPage = "configure"
               /\ called'.config.objects = KeptPrompts(localConfig.objects)
               /\ called'.config.objects # <<>>
               /\ config' = called'.config]_vars

\* a rejected submit of a list that holds a prompt of spaces only
C9_RejectedBlankPrompt ==
    /\ called.kind = "alert" /\ called.from = "configure"
    /\ \E k \in 1..Len(localConfig.objects) : localConfig.objects[k] = Blank

\* C10: the format id the client sends, as export_format of the annotate
\* request or as the format parameter of the export request, is one of
\* 'coco', 'yolo', 'voc', 'roboflow'.
C10_KnownFormatSent ==
    /\ sent.kind = "annotate" => sent.body.export_format \in {"coco", "yolo", "voc", "roboflow"}
    /\ sent.kind = "export" => sent.format \in {"coco", "yolo", "voc", "roboflow"}

\* an export request for a format picked on the export page, after an
\* annotate request carried a format picked on the configure page
C10_PickedFormatExported ==
    /\ sent.kind = "export"
    /\ sent.format = "roboflow"
    /\ config.exportFormat = "yolo"

\* C11: when an export request is rejected or fails (the catch block of
\* handleExport alerts), session, annotations, config and the page are left
\* as they were and exportComplete is not set; the page that made the
\* request ends with exporting = false and exportComplete = false; and the
\* download is started only for a request the server accepts.
C11_FailedExportLeavesState ==
    [][/\ (called'.kind = "alert" /\ called'.from = "export")
            => /\ UNCHANGED <<session, annotations, config, currentPage>>
               /\ ex'.exportComplete = ex.exportComplete
               /\ exOld' = exOld => (~ex'.exporting /\ ~ex'.exportComplete)
               /\ exOld' # exOld => ex' = ex
       /\ called'.kind = "download"
            => LET req == IF exOld' # exOld THEN Head(exOld) ELSE Head(exReq)
               IN  ServerAcceptsExport(req.sid, req.format)]_vars

\* a failed export of a session whose annotation set the server holds: the
\* page is ready for another try
C11_ExportFailedOnce ==
    /\ called.kind = "alert" /\ called.from = "export"
    /\ currentPage = "export"
    /\ session # 0 /\ annotations = session
    /\ srv[session].status = "completed"
    /\ ~ex.exporting /\ ~ex.exportComplete

\* C12: the step that ends the upload request of the mounted UploadPage is
\* either the success (a session is created and onComplete is scheduled) or
\* the failure, and a file the server rejects can only fail; the failure
\* calls nothing, schedules no onComplete, leaves session, page and selected
\* file as they were and ends with error set, uploading = false and
\* uploadProgress = 0; the failed request of a page that has unmounted
\* changes nothing at all.
C12_FailedUploadNoSideEffects ==
    [][/\ (xhr # <<>> /\ xhr' = <<>> /\ xhrOld' = xhrOld)
            => \/ /\ ServerAcceptsUpload(xhr[1])
                  /\ created' = created + 1
                  /\ upDone' = Append(upDone, created')
               \/ /\ upDone' = upDone /\ created' = created
                  /\ called'.kind = "none"
                  /\ UNCHANGED <<session, currentPage, config, annotations>>
                  /\ up'.error # NoError
                  /\ ~up'.uploading
                  /\ up'.uploadProgress = 0
                  /\ up'.file = up.file
       /\ (Len(xhrOld') < Len(xhrOld) /\ created' = created)
            => /\ upDone' = upDone
               /\ called'.kind = "none"
               /\ UNCHANGED <<session, currentPage, config, annotations, up, xhr>>]_vars

\* the upload of a file that is no archive has been rejected after a
\* progress event, and the page is ready for another upload
C12_PngUploadRejected ==
    /\ currentPage = "upload"
    /\ up.file = PngFile
    /\ up.error = "Upload failed"
    /\ ~up.uploading /\ up.uploadProgress = 0
    /\ xhr = <<>>
    /\ session = 0

\* C13: every successful upload response is scheduled for onComplete as it
\* arrives (a new session id joins upDone), onComplete is called only for
\* the oldest scheduled response and takes it off, so once per response;
\* after the call session is that response and the page is 'configure'; and
\* every scheduled response is eventually handed to onComplete.
C13_UploadCompletesOnce ==
    /\ [][/\ (called'.kind = "onComplete" /\ called'.from = "upload")
               => /\ upDone # <<>>
                  /\ called'.data = Head(upDone)
                  /\ upDone' = Tail(upDone)
                  /\ called'.data \in 1..created
                  /\ session' = called'.data
                  /\ currentPage' = "configure"
          /\ created' # created
               => /\ created' = created + 1
                  /\ upDone' = Append(upDone, created')
                  /\ \/ (xhr # <<>> /\ xhr' = <<>> /\ ServerAcceptsUpload(xhr[1]))
                     \/ (xhrOld # <<>> /\ xhrOld' = Tail(xhrOld)
                            /\ ServerAcceptsUpload(xhrOld[1]))
          /\ upDone' # upDone
               => \/ created' # created
                  \/ (called'.kind = "onComplete" /\ called'.from = "upload")]_vars
    /\ \A id \in Sessions :
          (\E k \in 1..Len(upDone) : upDone[k] = id)
              ~> (called.kind = "onComplete" /\ called.from = "upload" /\ called.data = id)

\* onComplete has just been called with the response of the second upload,
\* which ended after its UploadPage had been left
C13_SecondUploadCompleted ==
    /\ called.kind = "onComplete" /\ called.from = "upload"
    /\ called.data = 2
    /\ session = 2
    /\ currentPage = "configure"
    /\ upDone = <<>>

\* C14: POST /api/annotate is sent only by the mount of ProcessingPage (its
\* first attempt) or by a click on Retry, which is possible only in status
\* 'error' and sends the one request of the next attempt; no other step,
\* whatever the status, adds an annotate request.
C14_NoAutomaticRetry ==
    [][/\ sent'.kind = "annotate"
            => \/ /\ currentPage # "processing" /\ currentPage' = "processing"
                  /\ sent'.inst = ppCur'
                  /\ sent'.attempt = 1
               \/ /\ currentPage = "processing" /\ currentPage' = "processing"
                  /\ ppCur # 0 /\ ppCur' = ppCur
                  /\ sent'.inst = ppCur
                  /\ pp[ppCur].status = "error"
                  /\ sent'.attempt = pp[ppCur].attempt + 1
                  /\ pp'[ppCur].attempt = sent'.attempt
       /\ \A i \in Instances :
            Len(pp'[i].posts) > Len(pp[i].posts)
                => /\ sent'.kind = "annotate" /\ sent'.inst = i
                   /\ Len(pp'[i].posts) = Len(pp[i].posts) + 1]_vars

\* Retry has been clicked after the server reported the run as failed; the
\* request of the second attempt is the only one outstanding
C14_RetriedAfterRunError ==
    /\ sent.kind = "annotate"
    /\ sent.attempt = 2
    /\ srv[sent.sid].status = "error"
    /\ ppCur = sent.inst
    /\ Len(pp[ppCur].posts) = 1

\* C15: no step taken on the processing page changes config, and every
\* annotate request, the start at mount and every Retry, carries the
\* configuration that handleConfigSubmit last stored.
C15_RunConfigImmutable ==
    [][/\ (currentPage = "processing" /\ currentPage' = "processing")
            => config' = config
       /\ sent'.kind = "annotate"
            => /\ config' # InitialConfig
               /\ sent'.body = AnnotateBody(config')]_vars

\* a position of the range inputs
OnSlider(t) ==
    /\ SliderMin <= t /\ t <= SliderMax
    /\ (t - SliderMin) % SliderStep = 0

\* C16: in every annotate request box_threshold and text_threshold, in
\* hundredths, lie strictly between 0 and 100, and each is its default (35,
\* 25) or a slider position: 10 to 90 in steps of 5.
C16_ThresholdsInsideUnitInterval ==
    sent.kind = "annotate" =>
        /\ 0 < sent.body.box_threshold /\ sent.body.box_threshold < 100
        /\ 0 < sent.body.text_threshold /\ sent.body.text_threshold < 100
        /\ sent.body.box_threshold = DefaultBoxThreshold \/ OnSlider(sent.body.box_threshold)
        /\ sent.body.text_threshold = DefaultTextThreshold \/ OnSlider(sent.body.text_threshold)

\* a request with the box slider at its upper end and the text slider at its
\* lower end
C16_SlidersAtTheirEnds ==
    /\ sent.kind = "annotate"
    /\ sent.body.box_threshold = SliderMax
    /\ sent.body.text_threshold = SliderMin

\* C17: the annotate request of a submitted configuration delivers the
\* submitted removeOverlaps and minBoxSize: with the other choice for either
\* of them the request would have been a different one.
C17_QualitySettingsDelivered ==
    (sent.kind = "annotate" /\ ConfigSubmitted) =>
        /\ sent.body # AnnotateBody([config EXCEPT !.removeOverlaps = ~@])
        /\ sent.body # AnnotateBody([config EXCEPT !.minBoxSize = @ + 1])

\* no control of the configure page sets useSam: every annotate request
\* carries use_sam = false
UseSamNeverSent ==
    /\ ~config.useSam /\ ~localConfig.useSam
    /\ sent.kind = "annotate" => ~sent.body.use_sam

\* C18: segmentation can be switched on: a user who keeps configuring and
\* submitting, again and again, eventually sends an annotate request with
\* use_sam = true.
C18_UseSamRequested ==
    []<>(called.kind = "onSubmit") => <>(sent.kind = "annotate" /\ sent.body.use_sam)

\* C19: a mounted ProcessingPage that shows status 'completed' (it has
\* applied a 'completed' response and Retry has not been pressed) shows
\* progress 100, whatever status responses it applies afterwards.
C19_ProgressStaysComplete ==
    \A i \in Instances :
        (pp[i].alive /\ pp[i].status = "completed") => pp[i].progress = 100

\* C20: a mounted ProcessingPage issues GET /api/annotations only while it
\* shows status 'completed', that is after it has applied a 'completed'
\* response and never in status 'processing' or 'error'; and no step taken
\* while the mounted page is in status 'error' changes annotations.
C20_FetchOnlyAfterCompleted ==
    [][/\ sent'.kind = "annotations"
            => (pp[sent'.inst].alive => pp[sent'.inst].status = "completed")
       /\ (ppCur # 0 /\ pp[ppCur].status = "error")
            => annotations' = annotations]_vars

\* the canvas calls made for detection i, and the shapes they draw
CallsFor(i) == {k \in 1..Len(viewer.canvas) : viewer.canvas[k].det = i}
ShapesOf(i) ==
    {viewer.canvas[k].shape : k \in CallsFor(i)} \ {"label"}
OutlinesOf(i) ==
    {k \in CallsFor(i) : viewer.canvas[k].call \in {"stroke", "strokeRect"}}
FirstRingLength(i) ==
    LET g == viewer.currentAnnotation.segmentations
    IN  IF i <= Len(g) /\ g[i].defined /\ g[i].rings # <<>>
        THEN Len(g[i].rings[1]) ELSE 0

\* C21: every detection drawn on the canvas is rendered by exactly one shape,
\* the polygon of its first segmentation ring when that ring has at least six
\* numbers (three points) and its bounding box otherwise; a detection with no
\* segmentation is drawn as its box.
C21_OneShapePerDetection ==
    \A i \in 1..MaxDetections :
        CallsFor(i) # {}
            => /\ i <= Len(viewer.currentAnnotation.boxes)
               /\ Cardinality(OutlinesOf(i)) = 1
               /\ ShapesOf(i) = IF FirstRingLength(i) >= 6 THEN {"polygon"}
                                                           ELSE {"box"}
               /\ \A k \in CallsFor(i) :
                      viewer.canvas[k].shape = "polygon"
                          => viewer.canvas[k].vertices >= 3

\* both shapes on one canvas: a polygon for a ring of seven numbers next to
\* the box of a detection whose only ring has four
C21_PolygonAndFallbackDrawn ==
    /\ Len(viewer.currentAnnotation.boxes) = 2
    /\ FirstRingLength(1) = 7
    /\ FirstRingLength(2) = 4
    /\ ShapesOf(1) = {"polygon"}
    /\ ShapesOf(2) = {"box"}

\* C22: a submit made while skip detection is on passes onSubmit exactly the
\* one generic prompt 'object' and the flag skipDetection = true, and that is
\* the configuration App keeps.
C22_SkipSubmitsGenericPrompt ==
    [][(called'.kind = "onSubmit" /\ localConfig.skipDetection)
          => /\ called'.config.objects = <<GenericObject>>
             /\ called'.config.skipDetection = TRUE
             /\ config' = called'.config
             /\ currentPage' = "processing"]_vars

\* a submit with skip detection on has mounted ProcessingPage with the
\* generic prompt as the only one
C22_SkipSubmitted ==
    /\ called.kind = "onSubmit"
    /\ called.config.skipDetection
    /\ config.objects = <<GenericObject>>
    /\ \E i \in Instances : pp[i].alive /\ pp[i].sid = session

\* C23: a mounted ProcessingPage has no status request in flight, and issues
\* none, while an annotate request of its own is still outstanding; polling
\* starts only after the annotate request of the attempt has returned.
C23_NoPollDuringAnnotate ==
    /\ \A i \in Instances :
          (pp[i].alive /\ Len(pp[i].posts) > 0) => Len(pp[i].polls) = 0
    /\ (sent.kind = "status" /\ sent.alive) => ~sent.posting

\* C24: once a mounted ProcessingPage shows 'completed', or 'error' after a
\* start that did not fail (both set by a status response, or by the fetch
\* that follows 'completed'), it issues no further status request; only
\* Retry, which leaves that status, lets polling resume.
C24_NoPollAfterTerminalStatus ==
    [][\A i \in Instances :
          (/\ pp[i].alive
           /\ \/ pp[i].status = "completed"
              \/ pp[i].status = "error" /\ ~pp[i].failedStart
           /\ sent'.kind = "status"
           /\ sent'.inst = i)
             => ~sent'.alive]_vars

\* C25: a mounted ProcessingPage never has more than one live polling timer:
\* every timer startPolling created is the one pollingRef refers to, none is
\* left running beside it.
C25_OnePollingTimer ==
    \A i \in Instances :
        pp[i].alive => (Timers(pp[i]) <= 1 /\ pp[i].leaked = 0)

\* C26: a ProcessingPage that has unmounted has no further effect: no status
\* request is issued by it and onComplete is not invoked by it (so it changes
\* neither App.currentPage nor App.annotations), whatever was pending when it
\* unmounted.
C26_UnmountedPageIsInert ==
    /\ sent.kind = "status" => sent.alive
    /\ (called.kind = "onComplete" /\ called.from = "processing") => called.alive

\* C27: every page other than 'upload' is shown only with a session:
\* currentPage # 'upload' implies App.session is not null.
C27_PagesNeedSession ==
    currentPage # "upload" => session # 0

\* C28: a click on the sidebar item of step s changes the page only if s = 1,
\* or there is a session and s is at most one step beyond the current page,
\* and then the page becomes that item's page; any other click leaves
\* currentPage unchanged.  The session is never changed by a click.
C28_SidebarOneStepAhead ==
    [][called'.kind = "click"
          => LET s == called'.step
                 reachable == \/ s = 1
                              \/ session # 0 /\ s <= StepOf(currentPage) + 1
             IN  /\ reachable => currentPage' = navItems[s]
                 /\ ~reachable => currentPage' = currentPage
                 /\ session = 0 => currentPage' \in {currentPage, "upload"}
                 /\ StepOf(currentPage') <= StepOf(currentPage) + 1
                 /\ session' = session]_vars

\* with a session, the Export item was clicked on the configure page and the
\* page stayed
C28_ExportClickedTooEarly ==
    /\ called.kind = "click"
    /\ called.step = 5
    /\ session # 0
    /\ currentPage = "configure"

\* C30: a status poll whose fetch or JSON parsing throws changes nothing of
\* ProcessingPage: status, progress and processedCount are as before, no
\* response is awaited, the timers keep running (so the next tick polls
\* again), and the page is not moved to 'error' by it.
C30_FailedPollIsSwallowed ==
    [][(sent'.kind = "status" /\ sent'.threw)
          => LET i == sent'.inst
             IN  /\ pp'[i].status = pp[i].status
                 /\ pp'[i].progress = pp[i].progress
                 /\ pp'[i].processedCount = pp[i].processedCount
                 /\ pp'[i].polls = pp[i].polls
                 /\ pp'[i].timeouts = pp[i].timeouts
                 /\ Timers(pp'[i]) = Timers(pp[i])
                 /\ Timers(pp'[i]) > 0
                 /\ UNCHANGED <<currentPage, session, annotations>>]_vars

\* a poll of a mounted page failed while the run was processing with one
\* image counted, and the page still shows 'processing'
C30_PollFailedDuringRun ==
    /\ sent.kind = "status"
    /\ sent.threw
    /\ sent.alive
    /\ pp[sent.inst].status = "processing"
    /\ pp[sent.inst].processedCount > 0

\* C29: under fairness a ProcessingPage that stays mounted does not show
\* 'processing' for ever: it reaches 'error', or it reaches 'completed' and
\* App then shows the viewer page with the annotations fetched (or the fetch
\* fails and the page shows 'error').
C29_ProcessingEventuallyEnds ==
    \A i \in Instances :
        (pp[i].alive /\ pp[i].status \in {"processing", "completed"})
            ~> \/ pp[i].alive /\ pp[i].status = "error"
               \/ currentPage = "viewer" /\ annotations # 0
               \/ ~pp[i].alive

\* the mounted page's run was accepted and completed, and its onComplete has
\* made App show the viewer
C29_RunEndedInViewer ==
    /\ called.kind = "onComplete"
    /\ called.from = "processing"
    /\ called.alive
    /\ currentPage = "viewer"
    /\ session # 0
    /\ annotations = session
    /\ srv[session].status = "completed"

\* C31: a box given by its corners (x1, y1, x2, y2) is drawn as the rectangle
\* with origin (x1, y1), width x2 - x1 and height y2 - y1, also when it
\* touches the image edge with x1 = 0 or y1 = 0.
C31_CornerBoxDrawnAsGiven ==
    \A k \in 1..Len(viewer.canvas) :
        LET c == viewer.canvas[k]
            box == viewer.currentAnnotation.boxes[c.det]
        IN  (c.shape = "box" /\ box.x1 # Undefined)
               => c.rect = <<box.x1, box.y1, box.x2 - box.x1, box.y2 - box.y1>>

\* C32: class colours are consistent within a loaded annotation set: every
\* call that draws a detection uses the palette entry at the index, modulo
\* seven, at which the detection's label is first seen among the labels of
\* all images, whichever image is shown, and two calls for different labels
\* among the first seven classes never use the same colour.
FirstSeen(label) ==
    LET all == FlatLabels(viewer.annotations.annotations, 1)
        first == CHOOSE m \in 1..Len(all) :
                     all[m] = label /\ \A n \in 1..(m - 1) : all[n] # label
    IN  Cardinality({all[n] : n \in 1..(first - 1)})

ColouredCalls == {k \in 1..Len(viewer.canvas) : viewer.canvas[k].call # "fillText"}

C32_ColourByClassIndex ==
    /\ \A k \in ColouredCalls :
           LET c == viewer.canvas[k]
           IN  c.style[1] = classColors.colors[(FirstSeen(c.label) % 7) + 1]
    /\ \A k, m \in ColouredCalls :
           LET c == viewer.canvas[k]
               d == viewer.canvas[m]
           IN  (c.label # d.label /\ FirstSeen(c.label) < 7 /\ FirstSeen(d.label) < 7)
                  => c.style[1] # d.style[1]

\* the fourth image is drawn which shows the seventh and the eighth class:
\* the seventh has the last palette entry and the eighth the first again
C32_SeventhAndEighthClassDrawn ==
    /\ currentPage = "viewer"
    /\ viewer.selectedImage = 4
    /\ \E k \in ColouredCalls : FirstSeen(viewer.canvas[k].label) = 6
    /\ \E k \in ColouredCalls : FirstSeen(viewer.canvas[k].label) = 7

\* C33: configuration survives a round trip through the wizard: whenever the
\* configure page is shown again after a configuration was submitted, its
\* local configuration equals the submitted one in every field (objects,
\* thresholds, export format, removeOverlaps, minBoxSize, skipDetection).
C33_ConfigRoundTrip ==
    [][(/\ ConfigSubmitted
        /\ currentPage # "configure"
        /\ currentPage' = "configure")
          => localConfig' = config']_vars

\* C34: Start New Project resets the workflow and nothing else: the step sets
\* App.session and App.annotations to null and currentPage to 'upload', and
\* leaves App.config (prompts, thresholds, export format) unchanged.
C34_NewProjectKeepsConfig ==
    [][StartNewProject
          => /\ session' = 0
             /\ annotations' = 0
             /\ currentPage' = "upload"
             /\ config' = config]_vars

\* a new project was started after a run with a submitted configuration:
\* the upload page is shown without a session and the configuration is kept
C34_NewProjectStarted ==
    /\ currentPage = "upload"
    /\ session = 0
    /\ annotations = 0
    /\ created > 0
    /\ ConfigSubmitted

\* C35: only ZIP files are accepted for upload: in every reachable state the
\* file selected on the upload page, and every file in an upload request,
\* has a name ending in '.zip', whether it was dropped or picked.
C35_OnlyZipSelected ==
    /\ up.file # NoFile => endsWith(up.file, DotZip)
    /\ \A k \in 1..Len(xhr) : endsWith(xhr[k], DotZip)
    /\ \A k \in 1..Len(xhrOld) : endsWith(xhrOld[k], DotZip)

\* C36: at most one export request is in flight at a time, and exporting is
\* true for the whole duration of a request: while a request is in flight
\* the export page shows exporting = true, so that no second one can start.
C36_OneExportInFlight ==
    /\ Len(exReq) + Len(exOld) <= 1
    /\ (currentPage = "export" /\ Len(exReq) + Len(exOld) > 0) => ex.exporting

\* C37: the total detection count shown equals the sum, over the images of
\* the image list, of the per-image detection counts shown in the gallery,
\* and the image count is the length of the image list, for every
\* annotation set the annotations endpoint returns.
RECURSIVE SumOf(_, _)
SumOf(counts, j) == IF j > Len(counts) THEN 0 ELSE counts[j] + SumOf(counts, j + 1)

C37_TotalIsSumOfGallery ==
    /\ viewer.stats.totalDetections = SumOf(viewer.stats.gallery, 1)
    /\ viewer.stats.imageCount = Len(viewer.stats.gallery)

\* the scenario of three images with two detections on the first and none
\* on the others: total 2 and image count 3, with the second image selected
C37_TwoDetectionsOnFirstOfThree ==
    /\ currentPage = "viewer"
    /\ viewer.stats.gallery = <<2, 0, 0>>
    /\ viewer.stats.totalDetections = 2
    /\ viewer.stats.imageCount = 3
    /\ viewer.selectedImage = 2

\* C38: during a run the estimated remaining time is computed: once a status
\* response with processed_count > 0 has been applied, eta is non-null and
\* is based on the start time of the current attempt, in the initial
\* attempt after mount as well as after Retry.
C38_EtaFromCurrentStart ==
    \A i \in Instances :
        (pp[i].alive /\ pp[i].processedCount > 0)
           => (pp[i].eta # 0 /\ pp[i].eta = pp[i].startTime)

==========================================================================
